---- MODULE Spec2Model ----
(***************************************************************************)
(* The job-application store of the job tracker backend and the service    *)
(* functions that write it (job-service.ts): createApplication,            *)
(* updateApplication, deleteApplication and moveApplication, together with *)
(* the request schemas that guard the HTTP routes.                         *)
(*                                                                         *)
(* The table job_applications is the function apps: it maps the id of      *)
(* every live row to the row's fields.  Only the fields the ordering and   *)
(* stage logic reads or writes are kept (userId, status, orderIndex,       *)
(* interviewStage, rejectionStage).                                        *)
(***************************************************************************)
EXTENDS Integers, FiniteSets, Sequences, TLC

VARIABLES
    apps,     \* the job_applications table: id -> row
    pre,      \* the table as it was when the last sequential call began
    once,     \* the table as the first run of that call left it
    last,     \* the last sequential call: operation, arguments, outcome
    calls,    \* the requests being served concurrently: slot -> call frame
    alone,    \* per user: the table that user's calls alone would produce
    seen      \* the last list a concurrent reader was given

vars == <<apps, pre, once, last, calls, alone, seen>>

----------------------------------------------------------------------------
(* Bounds of the model *)

\* orderIndex values of the initial rows and of the requests are 0..MaxIndex
MaxIndex == 2

\* rows of the initial table; the last one belongs to the second user
NumApps == 5

----------------------------------------------------------------------------
(* Values *)

NULL == "null"

APPLIED == "Applied"
INTERVIEWING == "Interviewing"
OFFER == "Offer"
REJECTED == "Rejected"

\* enum ApplicationStatus
ApplicationStatus == {APPLIED, INTERVIEWING, OFFER, REJECTED}

Users == {"u1", "u2"}

AppIds == 1..NumApps

\* an id no row ever has
MissingId == 0

InterviewStages == {NULL, "Phone Screen"}
RejectionStages == {NULL, "Ghosted"}

Row(u, st, ix, is, rs) ==
    [userId |-> u, status |-> st, orderIndex |-> ix,
     interviewStage |-> is, rejectionStage |-> rs]

\* jobApplicationMoveSchema: status of the enum, orderIndex an integer >= 0,
\* both stages optional and nullable (an absent stage reads as NULL below,
\* because moveApplication reads both through "?? null")
MoveData(st, ix, is, rs) ==
    [status |-> st, orderIndex |-> ix, interviewStage |-> is, rejectionStage |-> rs]

----------------------------------------------------------------------------
(* The queries and writes of job-service.ts, as functions of the table *)

\* the select without its userId condition
GetApplicationByIdAnyUser(db, applicationId, userId) ==
    IF applicationId \in DOMAIN db THEN {db[applicationId]} ELSE {}

\* select ... where id = applicationId and userId = userId limit 1:
\* the set of rows found (empty, or one row)
GetApplicationById(db, applicationId, userId) ==
    IF applicationId \in DOMAIN db /\ db[applicationId].userId = userId
    THEN {db[applicationId]}
    ELSE {}

\* updateData with the stages of the request, whatever the new status
UpdateDataAsRequested(moveData) ==
    [status |-> moveData.status, orderIndex |-> moveData.orderIndex,
     interviewStage |-> moveData.interviewStage,
     rejectionStage |-> moveData.rejectionStage]

\* updateData whose last branch takes the stages of the request
UpdateDataElseAsRequested(moveData) ==
    IF moveData.status = INTERVIEWING
    THEN [status |-> moveData.status, orderIndex |-> moveData.orderIndex,
          interviewStage |-> moveData.interviewStage, rejectionStage |-> NULL]
    ELSE IF moveData.status = REJECTED
    THEN [status |-> moveData.status, orderIndex |-> moveData.orderIndex,
          interviewStage |-> NULL, rejectionStage |-> moveData.rejectionStage]
    ELSE [status |-> moveData.status, orderIndex |-> moveData.orderIndex,
          interviewStage |-> moveData.interviewStage,
          rejectionStage |-> moveData.rejectionStage]

\* updateData of moveApplication: status and orderIndex of the request, and
\* the stage fields decided by the new status
UpdateData(moveData) ==
    IF moveData.status = INTERVIEWING
    THEN [status |-> moveData.status, orderIndex |-> moveData.orderIndex,
          interviewStage |-> moveData.interviewStage, rejectionStage |-> NULL]
    ELSE IF moveData.status = REJECTED
    THEN [status |-> moveData.status, orderIndex |-> moveData.orderIndex,
          interviewStage |-> NULL, rejectionStage |-> moveData.rejectionStage]
    ELSE [status |-> moveData.status, orderIndex |-> moveData.orderIndex,
          interviewStage |-> NULL, rejectionStage |-> NULL]

\* the shift done on every move
StatusChangedAlways(oldStatus, newStatus) == TRUE

\* if (oldStatus !== newStatus)
StatusChanged(oldStatus, newStatus) == oldStatus # newStatus

\* the shift query with <= for >=
AppsToShiftBelow(db, applicationId, moveData, userId) ==
    { [id |-> i, orderIndex |-> db[i].orderIndex] :
        i \in { j \in DOMAIN db :
                  /\ db[j].userId = userId
                  /\ db[j].status = moveData.status
                  /\ db[j].orderIndex <= moveData.orderIndex
                  /\ j # applicationId } }

\* the shift query with > for >=
AppsToShiftAbove(db, applicationId, moveData, userId) ==
    { [id |-> i, orderIndex |-> db[i].orderIndex] :
        i \in { j \in DOMAIN db :
                  /\ db[j].userId = userId
                  /\ db[j].status = moveData.status
                  /\ db[j].orderIndex > moveData.orderIndex
                  /\ j # applicationId } }

\* the shift query without its userId condition
AppsToShiftAnyUser(db, applicationId, moveData, userId) ==
    { [id |-> i, orderIndex |-> db[i].orderIndex] :
        i \in { j \in DOMAIN db :
                  /\ db[j].status = moveData.status
                  /\ db[j].orderIndex >= moveData.orderIndex
                  /\ j # applicationId } }

\* the rows the shift query returns, as (id, orderIndex) read at that moment
AppsToShift(db, applicationId, moveData, userId) ==
    { [id |-> i, orderIndex |-> db[i].orderIndex] :
        i \in { j \in DOMAIN db :
                  /\ db[j].userId = userId
                  /\ db[j].status = moveData.status
                  /\ db[j].orderIndex >= moveData.orderIndex
                  /\ j # applicationId } }

\* the shift update with - 1 for + 1
ShiftWriteDown(db, app) ==
    IF app.id \in DOMAIN db
    THEN [db EXCEPT ![app.id].orderIndex = app.orderIndex - 1]
    ELSE db

\* update ... set orderIndex = app.orderIndex + 1 where id = app.id
ShiftWrite(db, app) ==
    IF app.id \in DOMAIN db
    THEN [db EXCEPT ![app.id].orderIndex = app.orderIndex + 1]
    ELSE db

\* the for loop over appsToShift, run to its end with nothing in between
RECURSIVE ShiftAll(_, _)
ShiftAll(db, appsToShift) ==
    IF appsToShift = {}
    THEN db
    ELSE LET app == CHOOSE a \in appsToShift : TRUE
         IN  ShiftAll(ShiftWrite(db, app), appsToShift \ {app})

\* the last update without orderIndex among the fields it sets
MoveWriteKeepsIndex(db, applicationId, userId, updateData) ==
    IF applicationId \in DOMAIN db /\ db[applicationId].userId = userId
    THEN [db EXCEPT ![applicationId] =
            Row(userId, updateData.status, db[applicationId].orderIndex,
                updateData.interviewStage, updateData.rejectionStage)]
    ELSE db

\* the last update done only when the status does not go back in the pipeline
MoveWriteForwardOnly(db, applicationId, userId, updateData) ==
    IF /\ applicationId \in DOMAIN db /\ db[applicationId].userId = userId
       /\ LET Funnel == (APPLIED :> 0) @@ (INTERVIEWING :> 1) @@
                        (OFFER :> 2) @@ (REJECTED :> 3)
          IN  Funnel[db[applicationId].status] <= Funnel[updateData.status]
    THEN [db EXCEPT ![applicationId] =
            Row(userId, updateData.status, updateData.orderIndex,
                updateData.interviewStage, updateData.rejectionStage)]
    ELSE db

\* update ... set updateData where id = applicationId and userId = userId
MoveWrite(db, applicationId, userId, updateData) ==
    IF GetApplicationById(db, applicationId, userId) # {}
    THEN [db EXCEPT ![applicationId] =
            Row(userId, updateData.status, updateData.orderIndex,
                updateData.interviewStage, updateData.rejectionStage)]
    ELSE db

\* jobApplicationCreateSchema applied to a request body: an absent status
\* becomes Applied and an absent orderIndex becomes 0
JobApplicationCreateSchema(body) ==
    [status |-> IF "status" \in DOMAIN body THEN body.status ELSE APPLIED,
     orderIndex |-> IF "orderIndex" \in DOMAIN body THEN body.orderIndex ELSE 0,
     interviewStage |-> body.interviewStage,
     rejectionStage |-> body.rejectionStage]

Max(S) == CHOOSE x \in S : \A y \in S : y <= x

\* select orderIndex ... where status and userId order by orderIndex desc limit 1
MaxOrderResult(db, status, userId) ==
    LET found == { db[i].orderIndex :
                     i \in { j \in DOMAIN db : db[j].status = status /\ db[j].userId = userId } }
    IN  IF found = {} THEN {} ELSE {Max(found)}

\* applicationData.orderIndex ?? (maxOrderResult.length > 0 ? maxOrder + 1 : 0)
CreateOrderIndex(db, applicationData, userId) ==
    IF "orderIndex" \in DOMAIN applicationData
    THEN applicationData.orderIndex
    ELSE LET maxOrderResult == MaxOrderResult(db, applicationData.status, userId)
         IN  IF maxOrderResult # {} THEN Max(maxOrderResult) + 1 ELSE 0

\* the id the database gives a new row: one that no row has or had
NewId(db) == Max(DOMAIN db \cup {NumApps}) + 1

\* createApplication: the table with the inserted row
CreateApplicationResult(db, applicationData, userId) ==
    LET row == Row(userId, applicationData.status,
                   CreateOrderIndex(db, applicationData, userId),
                   applicationData.interviewStage, applicationData.rejectionStage)
    IN  [i \in DOMAIN db \cup {NewId(db)} |-> IF i \in DOMAIN db THEN db[i] ELSE row]

\* a field of updateData: the request's value if the request has the field
Updated(applicationData, field, old) ==
    IF field \in DOMAIN applicationData THEN applicationData[field] ELSE old

\* updateApplication finding the row by its id alone and writing the caller
\* as its user
UpdateApplicationResultStampsUser(db, applicationId, applicationData, userId) ==
    IF applicationId \notin DOMAIN db
    THEN [db |-> db, found |-> FALSE]
    ELSE LET existing == db[applicationId]
         IN  [db |-> [db EXCEPT ![applicationId] =
                        Row(userId,
                            Updated(applicationData, "status", existing.status),
                            Updated(applicationData, "orderIndex", existing.orderIndex),
                            Updated(applicationData, "interviewStage", existing.interviewStage),
                            Updated(applicationData, "rejectionStage", existing.rejectionStage))],
              found |-> TRUE]

\* updateApplication: the table it leaves and whether it returned a row
UpdateApplicationResult(db, applicationId, applicationData, userId) ==
    IF GetApplicationById(db, applicationId, userId) = {}
    THEN [db |-> db, found |-> FALSE]
    ELSE LET existing == db[applicationId]
         IN  [db |-> [db EXCEPT ![applicationId] =
                        Row(existing.userId,
                            Updated(applicationData, "status", existing.status),
                            Updated(applicationData, "orderIndex", existing.orderIndex),
                            Updated(applicationData, "interviewStage", existing.interviewStage),
                            Updated(applicationData, "rejectionStage", existing.rejectionStage))],
              found |-> TRUE]

\* deleteApplication closing the gap: the rows of the partition above the
\* deleted one move down by one
DeleteApplicationResultCompacting(db, applicationId, userId) ==
    IF applicationId \notin DOMAIN db \/ db[applicationId].userId # userId
    THEN [db |-> db, found |-> FALSE]
    ELSE LET gone == db[applicationId]
         IN  [db |-> [i \in DOMAIN db \ {applicationId} |->
                        IF /\ db[i].userId = gone.userId
                           /\ db[i].status = gone.status
                           /\ db[i].orderIndex > gone.orderIndex
                        THEN [db[i] EXCEPT !.orderIndex = @ - 1]
                        ELSE db[i]],
              found |-> TRUE]

\* deleteApplication: the table it leaves and whether it deleted a row
DeleteApplicationResult(db, applicationId, userId) ==
    IF GetApplicationById(db, applicationId, userId) = {}
    THEN [db |-> db, found |-> FALSE]
    ELSE [db |-> [i \in DOMAIN db \ {applicationId} |-> db[i]], found |-> TRUE]

\* moveApplication closing the gap it leaves: the rows of the old partition
\* above the moved one move down by one
MoveApplicationResultCompacting(db, applicationId, moveData, userId) ==
    LET application == GetApplicationById(db, applicationId, userId)
    IN  IF application = {}
        THEN [db |-> db, found |-> FALSE]
        ELSE LET old == CHOOSE a \in application : TRUE
                 shifted ==
                    IF StatusChanged(old.status, moveData.status)
                    THEN ShiftAll(db, AppsToShift(db, applicationId, moveData, userId))
                    ELSE db
                 closed ==
                    [i \in DOMAIN shifted |->
                        IF /\ i # applicationId
                           /\ StatusChanged(old.status, moveData.status)
                           /\ shifted[i].userId = userId
                           /\ shifted[i].status = old.status
                           /\ shifted[i].orderIndex > old.orderIndex
                        THEN [shifted[i] EXCEPT !.orderIndex = @ - 1]
                        ELSE shifted[i]]
             IN  [db |-> MoveWrite(closed, applicationId, userId, UpdateData(moveData)),
                  found |-> TRUE]

\* moveApplication run from its first query to its last write with no other
\* request in between: the table it leaves and whether it returned a row
MoveApplicationResult(db, applicationId, moveData, userId) ==
    LET application == GetApplicationById(db, applicationId, userId)
    IN  IF application = {}
        THEN [db |-> db, found |-> FALSE]
        ELSE LET oldStatus == (CHOOSE a \in application : TRUE).status
                 shifted ==
                    IF StatusChanged(oldStatus, moveData.status)
                    THEN ShiftAll(db, AppsToShift(db, applicationId, moveData, userId))
                    ELSE db
             IN  [db |-> MoveWrite(shifted, applicationId, userId, UpdateData(moveData)),
                  found |-> GetApplicationById(shifted, applicationId, userId) # {}]

----------------------------------------------------------------------------
(* Initial tables *)

\* the user of an initial row
InitOwner(i) == IF i = NumApps THEN "u2" ELSE "u1"

\* the statuses of the initial rows; every status is a target of a move
InitStatuses == {APPLIED, INTERVIEWING}

\* the orderIndex values of an initial row: the second user's row sits at the
\* top of its column, where a shift of that column at any index reaches it
InitIndexes(i) == IF i = NumApps THEN {MaxIndex} ELSE 0..MaxIndex

InitRows(i) ==
    { Row(InitOwner(i), st, ix,
          IF st = INTERVIEWING THEN "Phone Screen" ELSE NULL, NULL) :
        st \in InitStatuses, ix \in InitIndexes(i) }

StatusRank(st) == IF st = APPLIED THEN 0 ELSE 1

SortKey(r) == StatusRank(r.status) * (MaxIndex + 1) + r.orderIndex

\* ids are opaque: of the tables that differ only by renaming the ids of one
\* user's rows, the one with the rows in (status, orderIndex) order is kept
InitTablesOf(ids) ==
    { db \in [ids -> UNION { InitRows(i) : i \in ids }] :
        /\ \A i \in ids : db[i] \in InitRows(i)
        /\ \A i, j \in ids :
             (i < j /\ InitOwner(i) = InitOwner(j)) => SortKey(db[i]) <= SortKey(db[j]) }

InitTables == InitTablesOf(AppIds)

NoCall == [op |-> "none"]

IdleCall == [pc |-> "idle"]

InitRest ==
    /\ pre = apps
    /\ once = apps
    /\ last = NoCall
    /\ calls = <<>>
    /\ alone = <<>>
    /\ seen = <<>>

Init ==
    /\ apps \in InitTables
    /\ InitRest

----------------------------------------------------------------------------
(* Sequential calls: one request runs to its end before the next begins *)

\* the (interviewStage, rejectionStage) pairs of the requests
StagePairs == { <<NULL, NULL>>, <<"Phone Screen", "Ghosted">> }

MoveRequests ==
    { MoveData(st, ix, sp[1], sp[2]) :
        st \in ApplicationStatus, ix \in 0..MaxIndex, sp \in StagePairs }

\* PATCH /applications/:id/move served alone
MoveApplication(applicationId, moveData, userId) ==
    /\ last = NoCall
    /\ LET r == MoveApplicationResult(apps, applicationId, moveData, userId)
       IN  /\ apps' = r.db
           /\ once' = r.db
           /\ last' = [op |-> "move", id |-> applicationId, data |-> moveData,
                       userId |-> userId, found |-> r.found, again |-> FALSE,
                       foundAgain |-> FALSE]
    /\ pre' = apps
    /\ UNCHANGED <<calls, alone, seen>>

\* the same request sent again right after its first run
MoveAgain ==
    /\ last.op = "move"
    /\ ~last.again
    /\ LET r == MoveApplicationResult(apps, last.id, last.data, last.userId)
       IN  /\ apps' = r.db
           /\ last' = [last EXCEPT !.foundAgain = r.found, !.again = TRUE]
    /\ UNCHANGED <<pre, once, calls, alone, seen>>

NextMove ==
    \/ \E id \in AppIds \cup {MissingId}, md \in MoveRequests, u \in Users :
          MoveApplication(id, md, u)
    \/ MoveAgain

SpecMove == Init /\ [][NextMove]_vars

----------------------------------------------------------------------------
(* The four writing routes, each served alone, on a small table *)

\* the ids of the small tables: two rows of the first user, one of the second
SmallIds == {1, 2, NumApps}

InitCrud ==
    /\ apps \in InitTablesOf(SmallIds)
    /\ InitRest

\* a record of the optional fields a request body carries
Opt(field, values) == {<<>>} \cup { field :> v : v \in values }

\* bodies of POST /applications that pass jobApplicationCreateSchema
CreateBodies ==
    { st @@ ix @@ [interviewStage |-> sp[1], rejectionStage |-> sp[2]] :
        st \in Opt("status", ApplicationStatus),
        ix \in Opt("orderIndex", 0..MaxIndex),
        sp \in StagePairs }

\* bodies of PUT /applications/:id that pass jobApplicationUpdateSchema
UpdateBodies ==
    { st @@ ix @@ is @@ rs :
        st \in Opt("status", ApplicationStatus),
        ix \in Opt("orderIndex", 0..MaxIndex),
        is \in Opt("interviewStage", InterviewStages),
        rs \in Opt("rejectionStage", RejectionStages) }

Call(op, id, data, userId, found) ==
    [op |-> op, id |-> id, data |-> data, userId |-> userId, found |-> found,
     again |-> FALSE, foundAgain |-> FALSE]

\* POST /applications: the validator, then createApplication
CreateApplication(body, userId) ==
    /\ last = NoCall
    /\ apps' = CreateApplicationResult(apps, JobApplicationCreateSchema(body), userId)
    /\ last' = Call("create", NewId(apps), body, userId, TRUE)
    /\ pre' = apps
    /\ once' = apps'
    /\ UNCHANGED <<calls, alone, seen>>

\* PUT /applications/:id
UpdateApplication(applicationId, body, userId) ==
    /\ last = NoCall
    /\ LET r == UpdateApplicationResult(apps, applicationId, body, userId)
       IN  /\ apps' = r.db
           /\ last' = Call("update", applicationId, body, userId, r.found)
    /\ pre' = apps
    /\ once' = apps'
    /\ UNCHANGED <<calls, alone, seen>>

\* DELETE /applications/:id
DeleteApplication(applicationId, userId) ==
    /\ last = NoCall
    /\ LET r == DeleteApplicationResult(apps, applicationId, userId)
       IN  /\ apps' = r.db
           /\ last' = Call("delete", applicationId, <<>>, userId, r.found)
    /\ pre' = apps
    /\ once' = apps'
    /\ UNCHANGED <<calls, alone, seen>>

NextCrud ==
    \/ \E body \in CreateBodies, u \in Users : CreateApplication(body, u)
    \/ \E id \in SmallIds \cup {MissingId}, body \in UpdateBodies, u \in Users :
          UpdateApplication(id, body, u)
    \/ \E id \in SmallIds \cup {MissingId}, u \in Users : DeleteApplication(id, u)
    \/ \E id \in SmallIds \cup {MissingId}, md \in MoveRequests, u \in Users :
          MoveApplication(id, md, u)

SpecCrud == InitCrud /\ [][NextCrud]_vars

----------------------------------------------------------------------------
(* One move served alone on a table with three rows of the first user: the  *)
(* moved row and two others.                                               *)

MidIds == {1, 2, 3, NumApps}

InitPeers ==
    /\ apps \in InitTablesOf(MidIds)
    /\ InitRest

NextPeers ==
    \E id \in MidIds \cup {MissingId}, md \in MoveRequests, u \in Users :
        MoveApplication(id, md, u)

SpecPeers == InitPeers /\ [][NextPeers]_vars

----------------------------------------------------------------------------
(* One move served alone on rows that hold any stages.  createApplication  *)
(* and updateApplication store the stages of their request with any        *)
(* status, so a row can hold either stage, or both, in any status.         *)

\* the ids of these tables: one row of each user
StageIds == {1, NumApps}

StageRows(i) ==
    { Row(InitOwner(i), st, ix, is, rs) :
        st \in ApplicationStatus, ix \in InitIndexes(i),
        is \in InterviewStages, rs \in RejectionStages }

StageTables ==
    { db \in [StageIds -> UNION { StageRows(i) : i \in StageIds }] :
        \A i \in StageIds : db[i] \in StageRows(i) }

InitStage ==
    /\ apps \in StageTables
    /\ InitRest

StageRequests ==
    { MoveData(st, ix, is, rs) :
        st \in ApplicationStatus, ix \in 0..MaxIndex,
        is \in InterviewStages, rs \in RejectionStages }

NextStage ==
    \E id \in StageIds \cup {MissingId}, md \in StageRequests, u \in Users :
        MoveApplication(id, md, u)

SpecStage == InitStage /\ [][NextStage]_vars

----------------------------------------------------------------------------
(* PATCH /applications/:id/move with its validator: zValidator runs         *)
(* jobApplicationMoveSchema on the body and its hook answers 400 when the  *)
(* body fails, in which case the handler, and moveApplication, never run.  *)

\* jobApplicationMoveSchema accepting any string as status
JobApplicationMoveSchemaAnyStatus(body) ==
    body.orderIndex >= 0

\* jobApplicationMoveSchema: does the body pass
JobApplicationMoveSchema(body) ==
    /\ body.status \in ApplicationStatus
    /\ body.orderIndex >= 0

\* bodies of PATCH /applications/:id/move, valid or not: a status outside the
\* enum, an orderIndex below 0
MoveBodies ==
    { MoveData(st, ix, sp[1], sp[2]) :
        st \in ApplicationStatus \cup {"Cancelled"}, ix \in (0 - 1)..MaxIndex,
        sp \in StagePairs }

PatchMove(applicationId, body, userId) ==
    IF JobApplicationMoveSchema(body)
    THEN MoveApplication(applicationId, body, userId)
    ELSE /\ last = NoCall
         /\ last' = Call("rejected", applicationId, body, userId, FALSE)
         /\ UNCHANGED <<apps, pre, once, calls, alone, seen>>

NextRoute ==
    \E id \in SmallIds \cup {MissingId}, body \in MoveBodies, u \in Users :
        PatchMove(id, body, u)

SpecRoute == InitCrud /\ [][NextRoute]_vars

----------------------------------------------------------------------------
(* Requests served concurrently.  moveApplication awaits each of its        *)
(* queries, so requests interleave between one query and the next: the     *)
(* first select, the shift select, every shift update, the last update.    *)

Slots == {"a", "b"}

NoRead == [read |-> FALSE]

InitConc ==
    /\ apps \in InitTablesOf(SmallIds)
    /\ pre = apps
    /\ once = apps
    /\ last = NoCall
    /\ calls = [s \in Slots |-> IdleCall]
    /\ alone = [u \in Users |-> apps]
    /\ seen = NoRead

\* the requests of the concurrent runs name no stage
ConcRequests ==
    { MoveData(st, ix, NULL, NULL) : st \in ApplicationStatus, ix \in 0..MaxIndex }

\* between its first query and its last write
InFlight(s) == calls[s].pc \in {"select", "write"}

\* the request arrives and getApplicationById is answered
MoveBegin(s, applicationId, moveData, userId) ==
    /\ calls[s].pc = "idle"
    /\ LET application == GetApplicationById(apps, applicationId, userId)
           frame(pc, oldStatus, found) ==
               [pc |-> pc, id |-> applicationId, userId |-> userId, data |-> moveData,
                oldStatus |-> oldStatus, appsToShift |-> {}, found |-> found]
       IN  IF application = {}
           THEN calls' = [calls EXCEPT ![s] = frame("done", NULL, FALSE)]
           ELSE LET oldStatus == (CHOOSE a \in application : TRUE).status
                IN  calls' = [calls EXCEPT ![s] =
                        frame(IF StatusChanged(oldStatus, moveData.status)
                              THEN "select" ELSE "write", oldStatus, TRUE)]
    /\ alone' = [alone EXCEPT ![userId] =
                    MoveApplicationResult(alone[userId], applicationId, moveData, userId).db]
    /\ pre' = apps
    /\ UNCHANGED <<apps, once, last, seen>>

\* the shift query is answered
MoveSelect(s) ==
    /\ calls[s].pc = "select"
    /\ calls' = [calls EXCEPT
                    ![s].appsToShift =
                        AppsToShift(apps, calls[s].id, calls[s].data, calls[s].userId),
                    ![s].pc = "write"]
    /\ UNCHANGED <<apps, pre, once, last, alone, seen>>

\* one turn of the for loop: the rows come in the order the query gave them,
\* which the query does not fix
MoveShift(s) ==
    /\ calls[s].pc = "write"
    /\ \E app \in calls[s].appsToShift :
          /\ apps' = ShiftWrite(apps, app)
          /\ calls' = [calls EXCEPT ![s].appsToShift = @ \ {app}]
    /\ UNCHANGED <<pre, once, last, alone, seen>>

\* the last update issued while shift updates are still to do
MoveFinishEarly(s) ==
    /\ calls[s].pc = "write"
    /\ apps' = MoveWrite(apps, calls[s].id, calls[s].userId, UpdateData(calls[s].data))
    /\ calls' = [calls EXCEPT
                    ![s].found = GetApplicationById(apps, calls[s].id, calls[s].userId) # {},
                    ![s].pc = "done"]
    /\ UNCHANGED <<pre, once, last, alone, seen>>

\* the last update, and the return of the row it gave back
MoveFinish(s) ==
    /\ calls[s].pc = "write"
    /\ calls[s].appsToShift = {}
    /\ apps' = MoveWrite(apps, calls[s].id, calls[s].userId, UpdateData(calls[s].data))
    /\ calls' = [calls EXCEPT
                    ![s].found = GetApplicationById(apps, calls[s].id, calls[s].userId) # {},
                    ![s].pc = "done"]
    /\ UNCHANGED <<pre, once, last, alone, seen>>

\* the rows of one user
RowsOf(db, userId) ==
    [i \in { j \in DOMAIN db : db[j].userId = userId } |-> db[i]]

\* GET /applications: getAllApplications is one select
GetAllApplications(userId) ==
    /\ seen = NoRead
    /\ seen' = [read |-> TRUE, userId |-> userId, rows |-> RowsOf(apps, userId)]
    /\ UNCHANGED <<apps, pre, once, last, calls, alone>>

MoveSteps(s) == MoveSelect(s) \/ MoveShift(s) \/ MoveFinish(s)

\* one move and one reader
NextSteps ==
    \/ \E id \in SmallIds \cup {MissingId}, md \in ConcRequests, u \in Users :
          MoveBegin("a", id, md, u)
    \/ MoveSteps("a")
    \/ \E u \in Users : GetAllApplications(u)

SpecSteps == InitConc /\ [][NextSteps]_vars

\* two moves of the first user
NextConc ==
    \/ \E s \in Slots, id \in { i \in SmallIds : InitOwner(i) = "u1" }, md \in ConcRequests :
          MoveBegin(s, id, md, "u1")
    \/ \E s \in Slots : MoveSteps(s)

SpecConc == InitConc /\ [][NextConc]_vars

\* the slot that serves a user when every user has a slot of its own
SlotOf(userId) == IF userId = "u1" THEN "a" ELSE "b"

\* one move of each user
NextCross ==
    \/ \E u \in Users, id \in SmallIds \cup {MissingId}, md \in ConcRequests :
          MoveBegin(SlotOf(u), id, md, u)
    \/ \E s \in Slots : MoveSteps(s)

SpecCross == InitConc /\ [][NextCross]_vars

\* a query of the move is refused by the store: the await throws, the writes
\* not yet issued are never issued, and the route answers with the error
MoveFail(s) ==
    /\ InFlight(s)
    /\ calls' = [calls EXCEPT ![s].pc = "failed"]
    /\ UNCHANGED <<apps, pre, once, last, alone, seen>>

\* the three-row tables, with the first slot idle
InitMid ==
    /\ apps \in InitTablesOf(MidIds)
    /\ pre = apps
    /\ once = apps
    /\ last = NoCall
    /\ calls = [s \in Slots |-> IdleCall]
    /\ alone = [u \in Users |-> apps]
    /\ seen = NoRead

\* one move whose queries can fail
NextFail ==
    \/ \E id \in MidIds \cup {MissingId}, md \in ConcRequests, u \in Users :
          MoveBegin("a", id, md, u)
    \/ MoveSteps("a")
    \/ MoveFail("a")

SpecFail == InitMid /\ [][NextFail]_vars

\* DELETE /applications/:id served while a move is under way
DeleteDuring(applicationId, userId) ==
    /\ last = NoCall
    /\ LET r == DeleteApplicationResult(apps, applicationId, userId)
       IN  /\ apps' = r.db
           /\ last' = Call("delete", applicationId, <<>>, userId, r.found)
    /\ UNCHANGED <<pre, once, calls, alone, seen>>

\* one move and one delete
NextDelete ==
    \/ \E id \in SmallIds \cup {MissingId}, md \in ConcRequests, u \in Users :
          MoveBegin("a", id, md, u)
    \/ MoveSteps("a")
    \/ \E id \in SmallIds \cup {MissingId}, u \in Users : DeleteDuring(id, u)

SpecDelete == InitConc /\ [][NextDelete]_vars

\* two moves of the first user, each of a row of its own
NextRace ==
    \/ \E md \in ConcRequests : MoveBegin("a", 1, md, "u1")
    \/ \E md \in ConcRequests : MoveBegin("b", 2, md, "u1")
    \/ \E s \in Slots : MoveSteps(s)

SpecRace == InitConc /\ [][NextRace]_vars

----------------------------------------------------------------------------
(* The board.  The client keeps the list GET /applications gave it in a     *)
(* cache, held here in seen; handleDragEnd reads the cache and calls the    *)
(* move mutation; calls holds the mutations and last the fetch of the list. *)

NoRequest == [issued |-> FALSE]

\* what a card can be dropped on: nothing, a column, another card
Overs ==
    {[kind |-> "none"]}
        \cup { [kind |-> "column", status |-> st] : st \in ApplicationStatus }
        \cup { [kind |-> "card", id |-> i] : i \in AppIds }

\* handleDragEnd taking the number of cards of the column for the index
HandleDragEndCount(jobs, active, over) ==
    IF over.kind # "column" \/ active \notin DOMAIN jobs
    THEN NoRequest
    ELSE LET activeJob == jobs[active]
             overStatus == over.status
             targetJobs == { j \in DOMAIN jobs : jobs[j].status = overStatus }
             newOrderIndex == Cardinality(targetJobs)
         IN  IF activeJob.status # overStatus \/ activeJob.orderIndex # newOrderIndex
             THEN [issued |-> TRUE, id |-> active,
                   data |-> MoveData(
                       overStatus, newOrderIndex,
                       IF overStatus = INTERVIEWING
                       THEN (IF activeJob.interviewStage = NULL
                             THEN "Initial" ELSE activeJob.interviewStage)
                       ELSE NULL,
                       IF overStatus = REJECTED
                       THEN (IF activeJob.rejectionStage = NULL
                             THEN "Unknown" ELSE activeJob.rejectionStage)
                       ELSE NULL)]
             ELSE NoRequest

\* handleDragEnd: the request it hands to the move mutation, if any.  A drop
\* on nothing returns early.  over.id is read as a status: for a card it
\* names no column, jobsByStatus gives undefined and findIndex throws.  For a
\* column no card has the id of the column, so findIndex gives -1.
HandleDragEnd(jobs, active, over) ==
    IF over.kind # "column" \/ active \notin DOMAIN jobs
    THEN NoRequest
    ELSE LET activeJob == jobs[active]
             overStatus == over.status
             targetJobs == { j \in DOMAIN jobs : jobs[j].status = overStatus }
             newOrderIndex ==
                 IF targetJobs # {}
                 THEN Max({ jobs[j].orderIndex : j \in targetJobs }) + 1
                 ELSE 0
         IN  IF activeJob.status # overStatus \/ activeJob.orderIndex # newOrderIndex
             THEN [issued |-> TRUE, id |-> active,
                   data |-> MoveData(
                       overStatus, newOrderIndex,
                       IF overStatus = INTERVIEWING
                       THEN (IF activeJob.interviewStage = NULL
                             THEN "Initial" ELSE activeJob.interviewStage)
                       ELSE NULL,
                       IF overStatus = REJECTED
                       THEN (IF activeJob.rejectionStage = NULL
                             THEN "Unknown" ELSE activeJob.rejectionStage)
                       ELSE NULL)]
             ELSE NoRequest

\* the list is loaded: the cache holds the rows of the first user
InitBoard ==
    /\ apps \in InitTablesOf(MidIds)
    /\ pre = apps
    /\ once = apps
    /\ last = NoCall
    /\ calls = [s \in Slots |-> IdleCall]
    /\ alone = [u \in Users |-> apps]
    /\ seen = [read |-> TRUE, userId |-> "u1", rows |-> RowsOf(apps, "u1")]

\* a card is dropped: the drop, the cache handleDragEnd read and the request
\* it issued are kept in last
DragEnd(active, over) ==
    /\ last = NoCall
    /\ over.kind = "card" => over.id \in DOMAIN seen.rows
    /\ last' = [op |-> "drag", id |-> active, over |-> over, jobs |-> seen.rows,
                request |-> HandleDragEnd(seen.rows, active, over)]
    /\ UNCHANGED <<apps, pre, once, calls, alone, seen>>

NextDrag ==
    \E active \in MidIds \cup {MissingId}, over \in Overs : DragEnd(active, over)

SpecDrag == InitBoard /\ [][NextDrag]_vars

----------------------------------------------------------------------------
(* The move mutation of the board: onMutate, the request, onError,         *)
(* onSettled, and the fetch of the list that invalidateQueries starts.     *)

\* the rows of the board: two cards of the first user
ClientIds == {1, 2}

InitClient ==
    /\ apps \in InitTablesOf(ClientIds)
    /\ pre = apps
    /\ once = apps
    /\ last = NoCall
    /\ calls = [s \in Slots |-> IdleCall]
    /\ alone = [u \in Users |-> apps]
    /\ seen = [read |-> TRUE, userId |-> "u1", rows |-> RowsOf(apps, "u1")]

\* the updater of onMutate: the card of the request takes its status,
\* orderIndex and stages, the other cards stay
Optimistic(old, id, data) ==
    [j \in DOMAIN old |->
        IF j = id
        THEN [old[j] EXCEPT !.status = data.status,
                            !.orderIndex = data.orderIndex,
                            !.interviewStage = data.interviewStage,
                            !.rejectionStage = data.rejectionStage]
        ELSE old[j]]

\* a fetch of the list is under way
Fetching == last.op = "fetch" /\ last.pc \in {"sent", "answered"}

\* a mutation is between its onMutate and its onSettled
Pending(s) == calls[s].pc \in {"pending", "served", "refused"}

\* a drop that issues a request, and onMutate of the mutation: the fetch under
\* way is cancelled, the cache is kept as previousJobs, the cache is updated.
\* The second slot is taken when the first is.
Mutate(s, active, over) ==
    /\ calls[s].pc = "idle"
    /\ s = "b" => calls["a"].pc # "idle"
    /\ LET request == HandleDragEnd(seen.rows, active, over)
       IN  /\ request.issued
           /\ calls' = [calls EXCEPT ![s] =
                          [pc |-> "pending", id |-> request.id, data |-> request.data,
                           userId |-> "u1", previousJobs |-> seen.rows, ok |-> FALSE]]
           /\ seen' = [seen EXCEPT !.rows = Optimistic(@, request.id, request.data)]
    /\ last' = IF Fetching THEN [op |-> "fetch", pc |-> "cancelled"] ELSE last
    /\ UNCHANGED <<apps, pre, once, alone>>

\* the request reaches the server, which serves the move
Serve(s) ==
    /\ calls[s].pc = "pending"
    /\ LET r == MoveApplicationResult(apps, calls[s].id, calls[s].data, calls[s].userId)
       IN  /\ apps' = r.db
           /\ calls' = [calls EXCEPT ![s].pc = "served", ![s].ok = r.found]
    /\ UNCHANGED <<pre, once, last, alone, seen>>

\* the request fails before the server serves it
Refuse(s) ==
    /\ calls[s].pc = "pending"
    /\ calls' = [calls EXCEPT ![s].pc = "refused"]
    /\ UNCHANGED <<apps, pre, once, last, alone, seen>>

\* the mutation that invalidates the list in onSuccess, not in onSettled
SettleOnSuccess(s) ==
    /\ calls[s].pc \in {"served", "refused"}
    /\ LET failed == calls[s].pc = "refused" \/ ~calls[s].ok
       IN  /\ seen' = IF failed
                      THEN [seen EXCEPT !.rows = calls[s].previousJobs]
                      ELSE seen
           /\ last' = IF failed THEN last ELSE [op |-> "fetch", pc |-> "sent"]
    /\ calls' = [calls EXCEPT ![s] =
                    [pc |-> "settled",
                     ok |-> calls[s].pc = "served" /\ calls[s].ok]]
    /\ UNCHANGED <<apps, pre, once, alone>>

\* the answer arrives: onError puts previousJobs back in the cache when the
\* mutation failed, and onSettled invalidates the list, which starts a fetch
\* in place of the one under way
Settle(s) ==
    /\ calls[s].pc \in {"served", "refused"}
    /\ LET failed == calls[s].pc = "refused" \/ ~calls[s].ok
       IN  seen' = IF failed
                   THEN [seen EXCEPT !.rows = calls[s].previousJobs]
                   ELSE seen
    /\ last' = [op |-> "fetch", pc |-> "sent"]
    /\ calls' = [calls EXCEPT ![s] =
                    [pc |-> "settled",
                     ok |-> calls[s].pc = "served" /\ calls[s].ok]]
    /\ UNCHANGED <<apps, pre, once, alone>>

\* GET /applications is served
FetchServe ==
    /\ last.op = "fetch" /\ last.pc = "sent"
    /\ last' = [op |-> "fetch", pc |-> "answered", rows |-> RowsOf(apps, "u1")]
    /\ UNCHANGED <<apps, pre, once, calls, alone, seen>>

\* its answer arrives and becomes the cache
FetchDone ==
    /\ last.op = "fetch" /\ last.pc = "answered"
    /\ seen' = [seen EXCEPT !.rows = last.rows]
    /\ last' = [op |-> "fetch", pc |-> "done"]
    /\ UNCHANGED <<apps, pre, once, calls, alone>>

NextClient ==
    \/ \E s \in Slots, active \in ClientIds, over \in Overs : Mutate(s, active, over)
    \/ \E s \in Slots : Serve(s)
    \/ \E s \in Slots : Refuse(s)
    \/ \E s \in Slots : Settle(s)
    \/ FetchServe
    \/ FetchDone

SpecClient == InitClient /\ [][NextClient]_vars

\* every request is answered and every answer arrives
FairClient ==
    /\ \A s \in Slots : WF_vars(Serve(s) \/ Refuse(s))
    /\ \A s \in Slots : WF_vars(Settle(s))
    /\ WF_vars(FetchServe)
    /\ WF_vars(FetchDone)

SpecClientFair == SpecClient /\ FairClient

----------------------------------------------------------------------------
(* Properties of one move served alone *)

\* no two rows of one user and one status share an orderIndex
Unique(db) ==
    \A i, j \in DOMAIN db :
        (i # j /\ db[i].userId = db[j].userId /\ db[i].status = db[j].status)
            => db[i].orderIndex # db[j].orderIndex

\* the last call was a move that found its row
Moved == last.op = "move" /\ last.found

\* the rows of the caller other than the moved one that were in the target
\* status when the move began
Peers ==
    { j \in DOMAIN pre :
        /\ j # last.id
        /\ pre[j].userId = last.userId
        /\ pre[j].status = last.data.status }

\* C1: starting from a table with no orderIndex shared within a (user, status)
\* partition, after moves served one after the other no two rows of one user
\* and one status share an orderIndex.
C1_UniqueAfterMoves ==
    (last.op = "move" /\ Unique(pre)) => Unique(apps)

\* C3: a move to another status at index t leaves the moved row at t, every
\* other row of the caller in the target status that was at t or above one
\* higher, and every one below t as it was.
C3_CrossColumnShift ==
    (Moved /\ pre[last.id].status # last.data.status) =>
        /\ apps[last.id].orderIndex = last.data.orderIndex
        /\ \A j \in Peers :
              IF pre[j].orderIndex >= last.data.orderIndex
              THEN apps[j] = [pre[j] EXCEPT !.orderIndex = pre[j].orderIndex + 1]
              ELSE apps[j] = pre[j]

\* the destination held 0, 1, 2; the mover went to 1; the column now holds
\* 0, 1, 2, 3 with the former 1 and 2 at 2 and 3
C3_Witness ==
    /\ Moved /\ ~last.again
    /\ pre[last.id].status # last.data.status
    /\ last.data.orderIndex = 1
    /\ {pre[j].orderIndex : j \in Peers} = {0, 1, 2}
    /\ Cardinality(Peers) = 3
    /\ {apps[j].orderIndex : j \in Peers} = {0, 2, 3}
    /\ apps[last.id].orderIndex = 1

\* C4: a move within the row's own status to index t shifts every other row
\* of that partition at t or above by one and leaves the mover at t (stated
\* for tables whose partitions hold no orderIndex twice, as in the example
\* of three Interviewing rows at 0, 1, 2).
C4_SamePartitionReorder ==
    (Moved /\ Unique(pre) /\ pre[last.id].status = last.data.status) =>
        /\ apps[last.id].orderIndex = last.data.orderIndex
        /\ \A j \in Peers :
              pre[j].orderIndex >= last.data.orderIndex
                  => apps[j].orderIndex = pre[j].orderIndex + 1

\* C5: a move of an id that no row has, or that a row of another user has,
\* returns no row and leaves every row of every user as it was.
C5_NotFoundNoWrites ==
    (/\ last.op = "move"
     /\ (last.id \notin DOMAIN pre \/ pre[last.id].userId # last.userId)) =>
        /\ ~last.found
        /\ apps = pre

\* the id is a row of the other user, in another status than the target,
\* and the caller has rows the shift query of this request would return
C5_Witness ==
    /\ last.op = "move" /\ ~last.found
    /\ last.id \in DOMAIN pre
    /\ pre[last.id].userId # last.userId
    /\ pre[last.id].status # last.data.status
    /\ AppsToShift(pre, last.id, last.data, last.userId) # {}
    /\ apps = pre

\* C6: the same move run twice in a row leaves every row as one run does,
\* and returns a row the second time exactly if it did the first time.
C6_IdempotentReMove ==
    (last.op = "move" /\ last.again) =>
        /\ apps = once
        /\ last.foundAgain = last.found

\* the first run changed the status and shifted rows of the target column
C6_Witness ==
    /\ Moved /\ last.again
    /\ pre[last.id].status # last.data.status
    /\ AppsToShift(pre, last.id, last.data, last.userId) # {}
    /\ apps = once

----------------------------------------------------------------------------
(* Properties of the four writing routes *)

\* interviewStage only with Interviewing, rejectionStage only with Rejected
StageExclusive(r) ==
    /\ r.interviewStage # NULL => r.status = INTERVIEWING
    /\ r.rejectionStage # NULL => r.status = REJECTED
    /\ ~(r.interviewStage # NULL /\ r.rejectionStage # NULL)

\* C2: in every state reached by create, update, move and delete calls every
\* row has interviewStage non-null only with status Interviewing,
\* rejectionStage non-null only with status Rejected, and never both.
C2_StageExclusivity ==
    \A i \in DOMAIN apps : StageExclusive(apps[i])

\* C10: a row created through POST /applications whose body names no
\* orderIndex gets 1 + the largest orderIndex of its (user, status)
\* partition, or 0 if the partition is empty, so it shares its orderIndex
\* with no row of the partition (stated for tables whose partitions hold no
\* orderIndex twice).
C10_CreationIndex ==
    (last.op = "create" /\ "orderIndex" \notin DOMAIN last.data /\ Unique(pre)) =>
        LET new == apps[last.id]
            part == { pre[j].orderIndex :
                        j \in { k \in DOMAIN pre : /\ pre[k].userId = new.userId
                                                   /\ pre[k].status = new.status } }
        IN  /\ new.orderIndex = (IF part = {} THEN 0 ELSE Max(part) + 1)
            /\ new.orderIndex \notin part

----------------------------------------------------------------------------
(* Properties of requests served concurrently *)

\* C7: a move is one atomic step: a reader is never given a list in which
\* some but not all writes of one move are applied, so every list read while
\* one move runs is the list before the move or the list after all of it.
C7_MoveAtomic ==
    (seen.read /\ calls["a"].pc # "idle") =>
        LET c == calls["a"]
            after == MoveApplicationResult(pre, c.id, c.data, c.userId).db
        IN  seen.rows \in {RowsOf(pre, seen.userId), RowsOf(after, seen.userId)}

\* C8: for each user at most one move is between its first query and its
\* last write.
C8_OneMoveInFlight ==
    \A s, t \in Slots :
        (s # t /\ InFlight(s) /\ InFlight(t)) => calls[s].userId # calls[t].userId

\* a user has no move between its first query and its last write
Quiet(userId) == ~InFlight(SlotOf(userId))

\* C9: when moves of different users interleave, no step of one user's move
\* writes a row of another user, and once a user's moves have ended that
\* user's rows are what the user's moves run alone would leave.
C9_CrossOwner ==
    /\ [](\A u \in Users : Quiet(u) => RowsOf(apps, u) = RowsOf(alone[u], u))
    /\ [][\A u \in Users :
            calls'[SlotOf(u)] = calls[SlotOf(u)] => RowsOf(apps', u) = RowsOf(apps, u)]_vars

\* both moves are between their first query and their last write, both
\* into the same column at the same index; the first user's move has shifted
\* a row of its own and has its last write still to do
C9_Witness ==
    /\ calls["a"].pc = "write" /\ calls["b"].pc = "write"
    /\ calls["a"].data = calls["b"].data
    /\ calls["a"].appsToShift = {}
    /\ \E i \in DOMAIN apps :
          /\ apps[i].userId = "u1" /\ i # calls["a"].id
          /\ apps[i].status = calls["a"].data.status
          /\ apps[i].orderIndex = pre[i].orderIndex + 1
          /\ pre[i].orderIndex >= calls["a"].data.orderIndex


----------------------------------------------------------------------------
(* One move: stages, index, frame, target status.                          *)

\* the first run of the move has just been served and returned the row
MovedOnce == Moved /\ ~last.again

\* the move changed the status of the row
Crossed == pre[last.id].status # last.data.status

\* C11: after a move that returned the row, to Interviewing the row holds the
\* interviewStage of the request and no rejectionStage, and to Rejected it
\* holds the rejectionStage of the request and no interviewStage, whatever
\* the request carried in the other stage and whatever the row held before.
C11_StagesOfInterviewingRejected ==
    /\ (Moved /\ last.data.status = INTERVIEWING) =>
          /\ apps[last.id].interviewStage = last.data.interviewStage
          /\ apps[last.id].rejectionStage = NULL
    /\ (Moved /\ last.data.status = REJECTED) =>
          /\ apps[last.id].rejectionStage = last.data.rejectionStage
          /\ apps[last.id].interviewStage = NULL

\* a row holding both stages moved to Interviewing by a request carrying both
C11_Witness ==
    /\ Moved /\ last.data.status = INTERVIEWING
    /\ last.data.interviewStage # NULL /\ last.data.rejectionStage # NULL
    /\ pre[last.id].rejectionStage # NULL /\ pre[last.id].status = REJECTED
    /\ apps[last.id].interviewStage = last.data.interviewStage
    /\ apps[last.id].rejectionStage = NULL

\* C12: after a move that returned the row, to a status other than
\* Interviewing and Rejected the row holds neither stage, whatever the request
\* carried and whatever the row held before.
C12_StagesOfOtherStatuses ==
    (Moved /\ last.data.status \notin {INTERVIEWING, REJECTED}) =>
        /\ apps[last.id].interviewStage = NULL
        /\ apps[last.id].rejectionStage = NULL

\* a row holding both stages moved to Offer by a request carrying both
C12_Witness ==
    /\ Moved /\ last.data.status = OFFER
    /\ last.data.interviewStage # NULL /\ last.data.rejectionStage # NULL
    /\ pre[last.id].interviewStage # NULL /\ pre[last.id].rejectionStage # NULL
    /\ apps[last.id].interviewStage = NULL
    /\ apps[last.id].rejectionStage = NULL

\* C13: after a move that returned the row, the orderIndex of the row is the
\* orderIndex of the request, whether the status changed or not: it is not
\* clamped to the size of the partition and the shift does not raise it.
C13_RequestedIndexVerbatim ==
    Moved => apps[last.id].orderIndex = last.data.orderIndex

\* a row at index 0 moved to the highest index of a partition that held no
\* row of the caller
C13_Witness ==
    /\ MovedOnce /\ Crossed
    /\ last.data.orderIndex = MaxIndex
    /\ pre[last.id].orderIndex = 0
    /\ Peers = {}
    /\ apps[last.id].orderIndex = MaxIndex

\* C14: a move within the status of the row leaves every other row as it
\* was; a move that changes the status raises by one every row of the caller
\* in the new status at or above the index of the request.
C14_ShiftOnlyOnStatusChange ==
    /\ (MovedOnce /\ ~Crossed) =>
          \A j \in DOMAIN pre \ {last.id} : apps[j] = pre[j]
    /\ (MovedOnce /\ Crossed) =>
          \A j \in Peers :
              pre[j].orderIndex >= last.data.orderIndex =>
                  apps[j].orderIndex = pre[j].orderIndex + 1

\* a move within the status to an index another row of the caller holds: that
\* row stays
C14_Witness ==
    /\ MovedOnce /\ ~Crossed
    /\ \E j \in Peers :
          /\ pre[j].orderIndex = last.data.orderIndex
          /\ apps[j] = pre[j]

\* C15: a move that returned the row changes no row other than the moved one
\* and the rows of the caller that were in the new status at or above the
\* index of the request; the rows left in the old partition, those of the
\* other partitions and those of the other users keep status, orderIndex and
\* stages, and no row appears or disappears.
C15_FrameOfMove ==
    Moved =>
        /\ DOMAIN apps = DOMAIN pre
        /\ \A j \in DOMAIN pre \ {last.id} :
              apps[j] # pre[j] =>
                  /\ j \in Peers
                  /\ pre[j].orderIndex >= last.data.orderIndex
                  /\ Crossed

\* a row at Applied 0 moved to Interviewing 0 while another row of the caller
\* was at Applied 1 and a row of the other user in Interviewing: both stay
C15_Witness ==
    /\ MovedOnce
    /\ pre[last.id].status = APPLIED /\ pre[last.id].orderIndex = 0
    /\ last.data.status = INTERVIEWING /\ last.data.orderIndex = 0
    /\ apps[last.id].status = INTERVIEWING /\ apps[last.id].orderIndex = 0
    /\ \E j \in DOMAIN pre \ {last.id} :
          /\ pre[j].userId = last.userId
          /\ pre[j].status = APPLIED /\ pre[j].orderIndex = 1
          /\ apps[j] = pre[j]
    /\ \E k \in DOMAIN pre :
          /\ pre[k].userId # last.userId
          /\ pre[k].status = INTERVIEWING
          /\ apps[k] = pre[k]

\* the caller of the last call holds the row the call names
Owned == last.id \in DOMAIN pre /\ pre[last.id].userId = last.userId

\* C16: deleteApplication removes the row it names when the caller holds it,
\* and nothing otherwise; every other row stays as it was, no index is
\* renumbered, and a table with no shared orderIndex stays so.
C16_DeleteExactlyOne ==
    last.op = "delete" =>
        /\ last.found <=> Owned
        /\ DOMAIN apps = IF Owned THEN DOMAIN pre \ {last.id} ELSE DOMAIN pre
        /\ \A j \in DOMAIN apps : apps[j] = pre[j]
        /\ Unique(pre) => Unique(apps)

\* a row deleted below another row of its partition: that row keeps its
\* index, leaving a gap
C16_Witness ==
    /\ last.op = "delete" /\ last.found
    /\ last.id \notin DOMAIN apps
    /\ \E j \in DOMAIN apps :
          /\ pre[j].userId = pre[last.id].userId
          /\ pre[j].status = pre[last.id].status
          /\ pre[j].orderIndex > pre[last.id].orderIndex
          /\ apps[j].orderIndex = pre[j].orderIndex

\* C17: a move of a row the caller holds returns the row and leaves it in the
\* status of the request, whatever status the row was in: each of the four
\* statuses can follow each of the four.
C17_AnyStatusToAnyStatus ==
    (last.op = "move" /\ Owned) =>
        /\ last.found
        /\ apps[last.id].status = last.data.status

\* a row moved from Rejected back to Applied
C17_Witness ==
    /\ Moved
    /\ pre[last.id].status = REJECTED
    /\ last.data.status = APPLIED
    /\ apps[last.id].status = APPLIED

\* C18: a body of PATCH /applications/:id/move whose status is outside the
\* enum is answered by the validator: moveApplication does not run and the
\* table stays as it was.
C18_InvalidStatusRejected ==
    (last # NoCall /\ last.data.status \notin ApplicationStatus) =>
        /\ last.op = "rejected"
        /\ ~last.found
        /\ apps = pre

\* a body valid but for its status, naming a row the caller holds
C18_Witness ==
    /\ last.op = "rejected"
    /\ last.data.status = "Cancelled"
    /\ last.data.orderIndex >= 0
    /\ Owned
    /\ apps = pre

\* C19: create, update, move and delete leave the userId of every row that
\* stays, the rows the shift writes included, and re-key no row: create adds
\* one row under an id the table did not hold, the others add none.
C19_OwnerAndIdImmutable ==
    last # NoCall =>
        /\ \A j \in DOMAIN pre \cap DOMAIN apps : apps[j].userId = pre[j].userId
        /\ IF last.op = "create"
           THEN /\ last.id \notin DOMAIN pre
                /\ DOMAIN apps = DOMAIN pre \cup {last.id}
           ELSE DOMAIN apps \subseteq DOMAIN pre

\* a move that wrote the moved row and shifted another one
C19_Witness ==
    /\ Moved /\ Crossed
    /\ \E j \in Peers : apps[j].orderIndex = pre[j].orderIndex + 1
    /\ apps[last.id].status = last.data.status
    /\ \A j \in DOMAIN pre : apps[j].userId = pre[j].userId

\* C20: with request bodies that pass the schemas, the orderIndex of every row
\* is a natural number in every state, after the shift too.
C20_OrderIndexNonNegative ==
    \A i \in DOMAIN apps : apps[i].orderIndex \in Nat

\* a move to index 0 that shifted a row from 0 to 1
C20_Witness ==
    /\ Moved /\ Crossed
    /\ last.data.orderIndex = 0
    /\ \E j \in Peers : pre[j].orderIndex = 0 /\ apps[j].orderIndex = 1
    /\ \A i \in DOMAIN apps : apps[i].orderIndex >= 0


----------------------------------------------------------------------------
(* Two moves of one user into one column *)

\* both moves change the status of their row, to the same status and index,
\* and both have had their shift query answered before any write was done, on
\* a table with no orderIndex shared within a partition
BothRead ==
    /\ calls["a"].pc = "write" /\ calls["b"].pc = "write"
    /\ calls["a"].oldStatus # calls["a"].data.status
    /\ calls["b"].oldStatus # calls["b"].data.status
    /\ calls["a"].data = calls["b"].data
    /\ calls["a"].id # calls["b"].id
    /\ apps = once
    /\ Unique(once)

BothDone == calls["a"].pc = "done" /\ calls["b"].pc = "done"

\* C21: when two moves of one user into the same status at the same index
\* have both read the rows of that status before either wrote, on a table
\* with no shared orderIndex, the table they leave when both have ended has
\* two rows of one user and status sharing an orderIndex.
C21_SameDestinationRace ==
    [](BothRead => [](BothDone => ~Unique(apps)))

\* both moves have ended and the two moved rows hold the same status and the
\* same orderIndex, on a table that began with no shared orderIndex
C21_Witness ==
    /\ BothDone /\ Unique(once)
    /\ calls["a"].data = calls["b"].data
    /\ calls["a"].oldStatus # calls["a"].data.status
    /\ calls["b"].oldStatus # calls["b"].data.status
    /\ apps[calls["a"].id].status = apps[calls["b"].id].status
    /\ apps[calls["a"].id].orderIndex = apps[calls["b"].id].orderIndex
    /\ calls["a"].id # calls["b"].id


----------------------------------------------------------------------------
(* One move whose writes can fail *)

\* the move in the first slot found its row and changes its status
Crossing ==
    /\ calls["a"].pc \in {"select", "write", "failed", "done"}
    /\ calls["a"].found
    /\ calls["a"].oldStatus # calls["a"].data.status

\* the rows the shift query of that move gives on the table the move began on
ShiftSet == AppsToShift(pre, calls["a"].id, calls["a"].data, calls["a"].userId)

\* C22: the shift updates of a move are issued before the update of the moved
\* row: in every state of a move, ended, under way or aborted at a failed
\* write, if the moved row holds the status and index of the request then
\* every row of the shift set has been raised by one; an aborted move has not
\* written the moved row.
C22_ShiftsBeforeMovedRow ==
    Crossing =>
        /\ (/\ apps[calls["a"].id].status = calls["a"].data.status
            /\ apps[calls["a"].id].orderIndex = calls["a"].data.orderIndex)
              => \A app \in ShiftSet : apps[app.id].orderIndex = app.orderIndex + 1
        /\ calls["a"].pc = "failed" => apps[calls["a"].id] = pre[calls["a"].id]

\* a move aborted at its last update: the two rows of the shift set are
\* raised and the moved row is as it was
C22_Witness ==
    /\ Crossing /\ calls["a"].pc = "failed"
    /\ \E x, y \in ShiftSet : x # y
    /\ \A app \in ShiftSet : apps[app.id].orderIndex = app.orderIndex + 1
    /\ apps[calls["a"].id] = pre[calls["a"].id]


\* C26: while one move that changes the status runs on a table with no
\* shared orderIndex, after each shift update and before the last update no
\* two rows of the caller in the new status share an orderIndex.
C26_UniqueBetweenShifts ==
    (Crossing /\ calls["a"].pc = "write" /\ Unique(pre)) =>
        \A i, j \in DOMAIN apps :
            (/\ i # j
             /\ apps[i].userId = calls["a"].userId /\ apps[j].userId = calls["a"].userId
             /\ apps[i].status = calls["a"].data.status
             /\ apps[j].status = calls["a"].data.status)
                => apps[i].orderIndex # apps[j].orderIndex

----------------------------------------------------------------------------
(* Peers of a move, update, a delete during a move *)

\* C23: create, update, move and delete lower the orderIndex of no row other
\* than the one they name: after a move every other row holds its orderIndex
\* or that plus one, and the gap a moved row leaves is not closed.
C23_PeersOnlyMoveUp ==
    last # NoCall =>
        \A j \in (DOMAIN pre \cap DOMAIN apps) \ {last.id} :
            /\ apps[j].orderIndex \in {pre[j].orderIndex, pre[j].orderIndex + 1}
            /\ last.op # "move" => apps[j].orderIndex = pre[j].orderIndex

\* a row moved out of a partition from below another row of it: that row
\* keeps its index
C23_Witness ==
    /\ Moved /\ Crossed
    /\ \E j \in DOMAIN pre \ {last.id} :
          /\ pre[j].userId = last.userId
          /\ pre[j].status = pre[last.id].status
          /\ pre[j].orderIndex > pre[last.id].orderIndex
          /\ apps[j].orderIndex = pre[j].orderIndex

\* C24: on a table with no orderIndex shared within a (user, status)
\* partition, an update that returned the row leaves no orderIndex shared
\* within a partition.
C24_UpdateKeepsUnique ==
    (last.op = "update" /\ last.found /\ Unique(pre)) => Unique(apps)

\* C25: two rows other than the moved one that are in one (user, status)
\* partition before and after a move keep their order: the one with the
\* smaller orderIndex before has the smaller orderIndex after.
C25_PeerOrderPreserved ==
    (last.op = "move") =>
        \A i, j \in DOMAIN pre \ {last.id} :
            (/\ pre[i].userId = pre[j].userId /\ pre[i].status = pre[j].status
             /\ apps[i].userId = apps[j].userId /\ apps[i].status = apps[j].status
             /\ pre[i].orderIndex < pre[j].orderIndex)
                => apps[i].orderIndex < apps[j].orderIndex

\* a move between two rows of the new status: the lower one stays, the upper
\* one is raised
C25_Witness ==
    /\ Moved /\ Crossed
    /\ \E i, j \in Peers :
          /\ pre[i].orderIndex < last.data.orderIndex
          /\ pre[j].orderIndex >= last.data.orderIndex
          /\ apps[i].orderIndex = pre[i].orderIndex
          /\ apps[j].orderIndex = pre[j].orderIndex + 1

\* C27: a move that returns no row because its row was deleted after the
\* move found it has done no shift update: every row left is as it was when
\* the move began.
C27_NotFoundAfterDeleteNoWrites ==
    (/\ calls["a"].pc = "done" /\ ~calls["a"].found
     /\ calls["a"].oldStatus # NULL
     /\ last.op = "delete" /\ last.found /\ last.id = calls["a"].id)
        => \A j \in DOMAIN apps : apps[j] = pre[j]


----------------------------------------------------------------------------
(* The board *)

\* the cards of the column a card was dropped on
DropColumn ==
    { j \in DOMAIN last.jobs : last.jobs[j].status = last.over.status }

\* C30: handleDragEnd issues a request only when the status of the column
\* differs from that of the card or the index it computed differs from that
\* of the card; for a drop on a column that index is one more than the highest
\* orderIndex of the cards of the column, 0 for a column with no card; the
\* request names an interviewStage exactly when the column is Interviewing and
\* a rejectionStage exactly when it is Rejected.
C30_DragEndRequest ==
    (last.op = "drag" /\ last.request.issued) =>
        LET job == last.jobs[last.id]
            data == last.request.data
        IN  /\ last.over.kind = "column"
            /\ data.status = last.over.status
            /\ job.status # data.status \/ job.orderIndex # data.orderIndex
            /\ \A j \in DropColumn : data.orderIndex > last.jobs[j].orderIndex
            /\ \/ DropColumn = {} /\ data.orderIndex = 0
               \/ \E j \in DropColumn : data.orderIndex = last.jobs[j].orderIndex + 1
            /\ data.interviewStage # NULL <=> data.status = INTERVIEWING
            /\ data.rejectionStage # NULL <=> data.status = REJECTED

\* a card with no interviewStage dropped on the Interviewing column, whose
\* two cards leave a gap below the highest: the index is past the highest,
\* not the number of cards, and the stage is "Initial"
C30_Witness ==
    /\ last.op = "drag" /\ last.request.issued
    /\ last.over = [kind |-> "column", status |-> INTERVIEWING]
    /\ last.jobs[last.id].interviewStage = NULL
    /\ \E i, j \in DropColumn :
          /\ i # j
          /\ last.jobs[j].orderIndex = MaxIndex
          /\ last.request.data.orderIndex = MaxIndex + 1
    /\ last.request.data.interviewStage = "Initial"
    /\ last.request.data.rejectionStage = NULL


\* the cache shows the change a mutation made in its onMutate
Shown(s) ==
    /\ calls[s].id \in DOMAIN seen.rows
    /\ seen.rows[calls[s].id].status = calls[s].data.status
    /\ seen.rows[calls[s].id].orderIndex = calls[s].data.orderIndex

\* C28: when a mutation fails, the cache becomes the previousJobs of that
\* mutation, and the change shown for another mutation still between its
\* onMutate and its onSettled stays in the cache.
C28_OptimisticRollback ==
    [][\A s, t \in Slots :
          (/\ calls[s].pc \in {"served", "refused"}
           /\ calls'[s].pc = "settled"
           /\ calls[s].pc = "refused" \/ ~calls[s].ok)
              => /\ seen'.rows = calls[s].previousJobs
                 /\ (t # s /\ Pending(t) /\ Shown(t)) =>
                        seen'.rows[calls[t].id] = seen.rows[calls[t].id]]_vars

\* no mutation is under way, one has settled, and the fetch its onSettled
\* started has given the cache its answer
Settled ==
    /\ \A s \in Slots : ~Pending(s)
    /\ \E s \in Slots : calls[s].pc = "settled"
    /\ last.op = "fetch" /\ last.pc = "done"

\* C29: every mutation, failed or not, ends by invalidating the list: once a
\* mutation is under way, a state comes in which no mutation is under way and
\* the fetch has answered, and in every such state the cache is the list of
\* the user's rows on the server.
C29_ReSync ==
    /\ [](Settled => seen.rows = RowsOf(apps, "u1"))
    /\ (\E s \in Slots : Pending(s)) ~> Settled

\* a mutation failed, its cache was put back, and the fetch that followed
\* has answered
C29_Witness ==
    /\ Settled
    /\ \E s \in Slots : calls[s].pc = "settled" /\ ~calls[s].ok
    /\ \E s \in Slots : calls[s].pc = "settled" /\ calls[s].ok
    /\ seen.rows = RowsOf(apps, "u1")
    /\ apps # once

====
